---- MODULE Spec2Model ----
(***************************************************************************)
(* Model of setup.py of tenpy: the module import guard, the version        *)
(* helpers (get_git_revision, get_git_description, get_version_info,       *)
(* write_underscore_version_py), setup_cython_extension and the __main__   *)
(* entry point.                                                            *)
(*                                                                         *)
(* Python strings that the code parses (int(...), split('-'), startswith,  *)
(* slicing) are sequences of one-character strings.  Directory names are   *)
(* sequences of path components.  An environment variable is a record      *)
(* [set, val]; set = FALSE is "not in os.environ".                         *)
(***************************************************************************)
EXTENDS Integers, Sequences, FiniteSets

\* ------------------------------------------------------------------ bounds
MaxLevel == 3       \* largest TENPY_OPTIMIZE value tried
MaxNeg == 1         \* TENPY_OPTIMIZE values go down to -MaxNeg
MaxHaveMkl == 1     \* largest HAVE_MKL value tried
MaxCommits == 11    \* largest commit count reported by git describe
MaxTagDashes == 1   \* largest number of '-' inside a tag name

\* ------------------------------------------------------- program constants
MAJOR == 0
MINOR == 10
MICRO == 0
RELEASED == FALSE

\* ----------------------------------------------------------- Python strings
Digits == <<"0", "1", "2", "3", "4", "5", "6", "7", "8", "9">>

IsDigit(c) == \E i \in 1..10 : Digits[i] = c

DigitVal(c) == (CHOOSE i \in 1..10 : Digits[i] = c) - 1

RECURSIVE NatToStr(_)
NatToStr(n) == IF n < 10 THEN <<Digits[n + 1]>>
               ELSE NatToStr(n \div 10) \o <<Digits[(n % 10) + 1]>>

\* '{0:d}'.format(n) and the decimal text a shell exports for n
IntToStr(n) == IF n < 0 THEN <<"-">> \o NatToStr(0 - n) ELSE NatToStr(n)

RECURSIVE Strip(_)
Strip(s) == IF s = <<>> THEN s
            ELSE IF Head(s) \in {" ", "\n"} THEN Strip(Tail(s))
            ELSE IF s[Len(s)] \in {" ", "\n"} THEN Strip(SubSeq(s, 1, Len(s) - 1))
            ELSE s

RECURSIVE DigitsVal(_)
DigitsVal(s) == IF s = <<>> THEN 0
                ELSE 10 * DigitsVal(SubSeq(s, 1, Len(s) - 1)) + DigitVal(s[Len(s)])

AllDigits(s) == s # <<>> /\ \A i \in 1..Len(s) : IsDigit(s[i])

\* int(s) for a str s: surrounding blanks dropped, optional sign, decimal
\* digits; anything else is a ValueError (ok = FALSE)
ParseInt(s) ==
    LET t == Strip(s)
        signed == t # <<>> /\ Head(t) \in {"+", "-"}
        body == IF signed THEN Tail(t) ELSE t
    IN IF AllDigits(body)
       THEN [ok |-> TRUE,
             val |-> IF signed /\ Head(t) = "-" THEN 0 - DigitsVal(body)
                     ELSE DigitsVal(body)]
       ELSE [ok |-> FALSE, val |-> 0]

HasDash(s) == \E i \in 1..Len(s) : s[i] = "-"

FirstDash(s) == CHOOSE i \in 1..Len(s) : s[i] = "-" /\ \A j \in 1..(i - 1) : s[j] # "-"

\* s.split('-')
RECURSIVE Split(_)
Split(s) == IF ~HasDash(s) THEN <<s>>
            ELSE <<SubSeq(s, 1, FirstDash(s) - 1)>>
                 \o Split(SubSeq(s, FirstDash(s) + 1, Len(s)))

\* s.startswith(p)
StartsWith(s, p) == Len(s) >= Len(p) /\ SubSeq(s, 1, Len(p)) = p

\* s[:n]
Prefix(s, n) == SubSeq(s, 1, IF Len(s) < n THEN Len(s) ELSE n)

\* os.path.join(a, b, ...) for relative tails
PathJoin(a, tail) == a \o tail

\* a dict with d[k] = v
Put(d, k, v) == [x \in (DOMAIN d) \cup {k} |-> IF x = k THEN v ELSE d[x]]

EmptyDict == [x \in {} |-> 0]

VERSION == IntToStr(MAJOR) \o <<".">> \o IntToStr(MINOR) \o <<".">> \o IntToStr(MICRO)

\* ------------------------------------------------------------- environment
Unset == [set |-> FALSE, val |-> <<>>]

Str(s) == [set |-> TRUE, val |-> s]

EnvNames == {"TENPY_OPTIMIZE", "HAVE_MKL", "MKL_DIR", "MKLROOT", "MKL_HOME",
             "CONDA_PREFIX", "MKL_INTERFACE_LAYER"}

OptimizeValues == {Unset, Str(<<"x">>), Str(<<>>), Str(<<" ", "2">>)}
                  \cup {Str(IntToStr(n)) : n \in (0 - MaxNeg)..MaxLevel}

HaveMklValues == {Unset, Str(<<"y">>)} \cup {Str(IntToStr(n)) : n \in 0..MaxHaveMkl}

LP64 == <<"L", "P", "6", "4">>

ILP64 == <<"I", "L", "P", "6", "4">>

MklDirValues == {Unset, Str(<<>>), Str(<<"opt", "mkl">>)}

MklRootValues == {Unset, Str(<<"opt", "intel">>)}

MklHomeValues == {Unset, Str(<<"home", "mkl">>)}

CondaValues == {Unset, Str(<<>>), Str(<<"conda">>)}

LayerValues == {Unset, Str(LP64), Str(ILP64), Str(ILP64 \o <<",", "G", "N", "U">>)}

\* ------------------------------------------------------------------- state
VARIABLES
    env,              \* os.environ of the running build
    cython_installed, \* whether "from Cython.Build import cythonize" succeeds
    mkl_h,            \* whether $CONDA_PREFIX/include/mkl.h exists
    git,              \* .git directory and the outcomes of the git commands
    files,            \* files written by the program: name -> content
    pc,               \* position of the running script
    cythonize,        \* module global: "None" or "function"
    cython_version,   \* module global
    loc,              \* locals of setup_cython_extension
    reads,            \* environment variables looked up so far
    stdout,           \* lines printed so far
    ext_modules,      \* return value of setup_cython_extension
    setup_call,       \* the call setup(ext_modules=...) once made
    call,             \* frame of a call of one of the version helpers
    last              \* the previous finished build: environment and outcome

vars == <<env, cython_installed, mkl_h, git, files, pc, cythonize, cython_version,
          loc, reads, stdout, ext_modules, setup_call, call, last>>

NoLocals == [include_dirs |-> <<>>, libs |-> <<>>, lib_dirs |-> <<>>,
             macros |-> <<>>, cython_macros |-> EmptyDict,
             comp_direct |-> EmptyDict, TENPY_OPTIMIZE |-> 1,
             HAVE_MKL |-> 0, MKL_DIR |-> <<>>]

NoCall == [fn |-> "none", status |-> "none", num |-> 0, full_version |-> <<>>,
           git_rev |-> <<>>, filename |-> <<>>, content |-> EmptyDict]

NoSetup == [called |-> FALSE, ext_modules |-> <<>>]

\* os.getenv(name): the value, or the default when the variable is not set
Getenv(name, default) == IF env[name].set THEN env[name].val ELSE default

\* int(os.getenv(name, default)) with an int default
GetenvInt(name, default) ==
    IF env[name].set THEN ParseInt(env[name].val) ELSE [ok |-> TRUE, val |-> default]

\* numpy.get_include()
NumpyInclude == <<"numpy", "include">>

\* ------------------------------------------------------------ module import
\* lines 3-8: the import guard
Import ==
    /\ pc \in {"python setup.py", "import setup"}
    /\ cythonize' = IF cython_installed THEN "function" ELSE "None"
    /\ cython_version' = IF cython_installed THEN <<"3">> ELSE <<"(not available)">>
    /\ pc' = IF pc = "python setup.py" THEN "main" ELSE "imported"
    /\ UNCHANGED <<env, cython_installed, mkl_h, git, files, loc, reads, stdout,
                   ext_modules, setup_call, call, last>>

\* --------------------------------------------------- setup_cython_extension
\* line 78 with the guard dropped
CouldNotLoad_Never(c) == FALSE

\* line 78: cythonize is None
CouldNotLoad(c) == c = "None"

\* lines 78-90: the Cython guard and the initial locals
Enter ==
    /\ pc = "main"
    /\ IF CouldNotLoad(cythonize)
       THEN /\ stdout' = Append(stdout, "Could not load cython. tenpy will not be compiled.")
            /\ ext_modules' = <<>>
            /\ pc' = "setup"
            /\ loc' = loc
       ELSE /\ loc' = [NoLocals EXCEPT
                         !.include_dirs = <<NumpyInclude>>,
                         !.comp_direct = [k \in {"language_level", "embedsignature"} |->
                                            IF k = "language_level" THEN 3 ELSE 1]]
            /\ pc' = "optimize"
            /\ UNCHANGED <<stdout, ext_modules>>
    /\ UNCHANGED <<env, cython_installed, mkl_h, git, files, cythonize, cython_version,
                   reads, setup_call, call, last>>

\* lines 94-99 with "> 2" for "> 1"
OptimizeDirectives_Above2(cd, level) ==
    LET fast == IF level > 2
                THEN Put(Put(cd, "initializedcheck", 0), "boundscheck", 0)
                ELSE cd
    IN IF level < 1 THEN Put(Put(fast, "profile", 1), "linetrace", 1) ELSE fast

\* lines 94-99 with "<= 1" for "< 1"
OptimizeDirectives_ProfileAt1(cd, level) ==
    LET fast == IF level > 1
                THEN Put(Put(cd, "initializedcheck", 0), "boundscheck", 0)
                ELSE cd
    IN IF level <= 1 THEN Put(Put(fast, "profile", 1), "linetrace", 1) ELSE fast

\* lines 94-99 with "!= 1" for "> 1"
OptimizeDirectives_Not1(cd, level) ==
    LET fast == IF level # 1
                THEN Put(Put(cd, "initializedcheck", 0), "boundscheck", 0)
                ELSE cd
    IN IF level < 1 THEN Put(Put(fast, "profile", 1), "linetrace", 1) ELSE fast

\* lines 94-99: the directives a level adds to comp_direct
OptimizeDirectives(cd, level) ==
    LET fast == IF level > 1
                THEN Put(Put(cd, "initializedcheck", 0), "boundscheck", 0)
                ELSE cd
    IN IF level < 1 THEN Put(Put(fast, "profile", 1), "linetrace", 1) ELSE fast

\* lines 93-99
ReadOptimize ==
    /\ pc = "optimize"
    /\ reads' = reads \cup {"TENPY_OPTIMIZE"}
    /\ LET r == GetenvInt("TENPY_OPTIMIZE", 1)
       IN IF r.ok
          THEN /\ loc' = [loc EXCEPT !.TENPY_OPTIMIZE = r.val,
                                     !.comp_direct = OptimizeDirectives(@, r.val)]
               /\ pc' = "mkl"
          ELSE /\ pc' = "ValueError"
               /\ loc' = loc
    /\ UNCHANGED <<env, cython_installed, mkl_h, git, files, cythonize, cython_version,
                   stdout, ext_modules, setup_call, call, last>>

\* line 101: the nested os.getenv defaults
MklDirOf == Getenv("MKL_DIR", Getenv("MKLROOT", Getenv("MKL_HOME", <<>>)))

\* lines 100-105
DetectMklDir ==
    /\ pc = "mkl"
    /\ reads' = reads \cup {"MKL_DIR", "MKLROOT", "MKL_HOME"}
    /\ LET d == MklDirOf
       IN loc' = IF d # <<>>
                 THEN [loc EXCEPT !.MKL_DIR = d,
                                  !.include_dirs = Append(@, PathJoin(d, <<"include">>)),
                                  !.lib_dirs = Append(@, PathJoin(d, <<"lib", "intel64">>)),
                                  !.HAVE_MKL = 1]
                 ELSE [loc EXCEPT !.MKL_DIR = d, !.HAVE_MKL = 0]
    /\ pc' = "conda"
    /\ UNCHANGED <<env, cython_installed, mkl_h, git, files, cythonize, cython_version,
                   stdout, ext_modules, setup_call, call, last>>

\* lines 106-112
DetectConda ==
    /\ pc = "conda"
    /\ reads' = reads \cup {"CONDA_PREFIX"}
    /\ LET p == Getenv("CONDA_PREFIX", <<>>)
       IN loc' = IF env["CONDA_PREFIX"].set /\ p # <<>>
                 THEN [loc EXCEPT !.include_dirs = Append(@, PathJoin(p, <<"include">>)),
                                  !.lib_dirs = Append(@, PathJoin(p, <<"lib">>)),
                                  !.HAVE_MKL = IF @ = 0
                                               THEN (IF mkl_h THEN 1 ELSE 0)
                                               ELSE @]
                 ELSE loc
    /\ pc' = "have_mkl"
    /\ UNCHANGED <<env, cython_installed, mkl_h, git, files, cythonize, cython_version,
                   stdout, ext_modules, setup_call, call, last>>

\* line 113 with the variable consulted only when nothing was detected
FinalHaveMkl_DetectionWins(detected) ==
    IF detected # 0 THEN [ok |-> TRUE, val |-> detected]
    ELSE GetenvInt("HAVE_MKL", detected)

\* line 113: the final HAVE_MKL given what detection found
FinalHaveMkl(detected) == GetenvInt("HAVE_MKL", detected)

\* lines 113-115
ReadHaveMkl ==
    /\ pc = "have_mkl"
    /\ reads' = reads \cup {"HAVE_MKL"}
    /\ LET r == FinalHaveMkl(loc.HAVE_MKL)
       IN IF r.ok
          THEN /\ loc' = [loc EXCEPT !.HAVE_MKL = r.val,
                                     !.cython_macros = Put(@, "HAVE_MKL", r.val)]
               /\ stdout' = Append(stdout, "compile with HAVE_MKL =")
               /\ pc' = "libs"
          ELSE /\ pc' = "ValueError"
               /\ UNCHANGED <<loc, stdout>>
    /\ UNCHANGED <<env, cython_installed, mkl_h, git, files, cythonize, cython_version,
                   ext_modules, setup_call, call, last>>

\* line 117
MklLibs == <<"mkl_rt", "pthread", "iomp5">>

\* lines 116-126
LinkLibs ==
    /\ pc = "libs"
    /\ IF loc.HAVE_MKL # 0
       THEN /\ reads' = reads \cup {"MKL_INTERFACE_LAYER"}
            /\ IF StartsWith(Getenv("MKL_INTERFACE_LAYER", LP64), ILP64)
               THEN /\ loc' = [loc EXCEPT !.libs = @ \o MklLibs,
                                          !.macros = Append(@, <<"MKL_ILP64", "None">>),
                                          !.cython_macros = Put(@, "MKL_INTERFACE_LAYER", 1)]
                    /\ stdout' = Append(stdout,
                                   "using MKL interface layer ILP64 with 64-bit indices")
               ELSE /\ loc' = [loc EXCEPT !.libs = @ \o MklLibs,
                                          !.cython_macros = Put(@, "MKL_INTERFACE_LAYER", 0)]
                    /\ stdout' = Append(stdout, "using default MKL interface layer")
       ELSE UNCHANGED <<reads, loc, stdout>>
    /\ pc' = "cythonize"
    /\ UNCHANGED <<env, cython_installed, mkl_h, git, files, cythonize, cython_version,
                   ext_modules, setup_call, call, last>>

\* lines 129-139 with a C macro that depends on the optimization level
Extensions_LevelMacro(l) ==
    <<[name |-> "*", sources |-> <<"tenpy/linalg/*.pyx">>,
       include_dirs |-> l.include_dirs, libraries |-> l.libs,
       library_dirs |-> l.lib_dirs,
       define_macros |-> IF l.TENPY_OPTIMIZE > 1
                         THEN Append(l.macros, <<"NDEBUG", "None">>)
                         ELSE l.macros,
       language |-> "c++",
       compiler_directives |-> l.comp_direct,
       compile_time_env |-> l.cython_macros]>>

\* lines 129-139: the Extension and what cythonize is asked to do with it
Extensions(l) ==
    <<[name |-> "*", sources |-> <<"tenpy/linalg/*.pyx">>,
       include_dirs |-> l.include_dirs, libraries |-> l.libs,
       library_dirs |-> l.lib_dirs, define_macros |-> l.macros,
       language |-> "c++",
       compiler_directives |-> l.comp_direct,
       compile_time_env |-> l.cython_macros]>>

\* lines 129-140
Cythonize ==
    /\ pc = "cythonize"
    /\ ext_modules' = Extensions(loc)
    /\ pc' = "setup"
    /\ UNCHANGED <<env, cython_installed, mkl_h, git, files, cythonize, cython_version,
                   loc, reads, stdout, setup_call, call, last>>

\* line 144: setup(ext_modules=setup_cython_extension())
Setup ==
    /\ pc = "setup"
    /\ setup_call' = [called |-> TRUE, ext_modules |-> ext_modules]
    /\ pc' = "done"
    /\ UNCHANGED <<env, cython_installed, mkl_h, git, files, cythonize, cython_version,
                   loc, reads, stdout, ext_modules, call, last>>


\* a later build of the same tree at another optimization level
Rebuild ==
    /\ pc \in {"done", "ValueError"}
    /\ \E v \in OptimizeValues : env' = [env EXCEPT !["TENPY_OPTIMIZE"] = v]
    /\ last' = [ran |-> TRUE, env |-> env, pc |-> pc, ext_modules |-> ext_modules]
    /\ pc' = "python setup.py"
    /\ cythonize' = "None"
    /\ cython_version' = <<>>
    /\ loc' = NoLocals
    /\ reads' = {}
    /\ stdout' = <<>>
    /\ ext_modules' = <<>>
    /\ setup_call' = NoSetup
    /\ UNCHANGED <<cython_installed, mkl_h, git, files, call>>

\* ----------------------------------------------------------- version helpers
Hashes == {<<"a", "b", "c", "d", "e", "f", "0", "1", "2">>,
           <<"0", "1", "2", "3", "4", "5", "6", "7", "8">>}

TagSegments == {<<"r", "c">>, <<"2">>}

RECURSIVE TagsWith(_)
TagsWith(k) == IF k = 0 THEN {<<"v", "0", ".", "9">>}
               ELSE {t \o <<"-">> \o g : t \in TagsWith(k - 1), g \in TagSegments}

Tags == UNION {TagsWith(k) : k \in 0..MaxTagDashes}

\* stdout of `git rev-parse HEAD`
RevParseOutput(g) == g.head \o <<"\n">>

\* stdout of `git describe --tags --long`: <tag>-<n>-g<abbreviated hash>
DescribeOutput(g) ==
    g.tag \o <<"-">> \o IntToStr(g.n) \o <<"-", "g">> \o Prefix(g.head, 7) \o <<"\n">>

Unknown == <<"u", "n", "k", "n", "o", "w", "n">>

\* lines 19-29
get_git_revision(g) ==
    IF ~g.dir THEN Unknown
    ELSE IF ~g.rev_ok THEN Unknown
    ELSE Strip(RevParseOutput(g))

\* line 43: int(descr.split('-')[1])
DescriptionNumber(descr) ==
    LET parts == Split(descr)
    IN IF Len(parts) < 2 THEN [raised |-> "IndexError", val |-> 0]
       ELSE IF ParseInt(parts[2]).ok
            THEN [raised |-> "none", val |-> ParseInt(parts[2]).val]
            ELSE [raised |-> "ValueError", val |-> 0]

\* lines 32-43
get_git_description(g) ==
    IF ~g.dir THEN [raised |-> "none", val |-> 0]
    ELSE IF ~g.descr_ok THEN [raised |-> "none", val |-> 0]
    ELSE DescriptionNumber(Strip(DescribeOutput(g)))

\* lines 46-51
get_version_info(g) ==
    LET git_rev == get_git_revision(g)
        d == get_git_description(g)
    IN IF RELEASED
       THEN [raised |-> "none", full_version |-> VERSION, git_rev |-> git_rev]
       ELSE IF d.raised # "none"
            THEN [raised |-> d.raised, full_version |-> <<>>, git_rev |-> <<>>]
            ELSE [raised |-> "none",
                  full_version |-> VERSION \o <<".", "d", "e", "v">> \o IntToStr(d.val)
                                   \o <<"+">> \o Prefix(git_rev, 7),
                  git_rev |-> git_rev]

\* lines 57-74: the text generated for the version file, by field
VersionContent(v) ==
    [version |-> VERSION, short_version |-> <<"v">> \o VERSION,
     released |-> RELEASED, full_version |-> v.full_version,
     git_revision |-> v.git_rev, numpy_version |-> <<"numpy">>,
     cython_version |-> cython_version]

DefaultFilename == "tenpy/_version.py"

Filenames == {DefaultFilename, "build/_version.py"}

CallGetGitRevision ==
    /\ pc = "imported"
    /\ call' = [NoCall EXCEPT !.fn = "get_git_revision", !.status = "returned",
                              !.git_rev = get_git_revision(git)]
    /\ pc' = "returned"
    /\ UNCHANGED <<env, cython_installed, mkl_h, git, files, cythonize, cython_version,
                   loc, reads, stdout, ext_modules, setup_call, last>>

CallGetGitDescription ==
    /\ pc = "imported"
    /\ LET d == get_git_description(git)
       IN IF d.raised = "none"
          THEN /\ call' = [NoCall EXCEPT !.fn = "get_git_description",
                                         !.status = "returned", !.num = d.val]
               /\ pc' = "returned"
          ELSE /\ call' = [NoCall EXCEPT !.fn = "get_git_description",
                                         !.status = d.raised]
               /\ pc' = d.raised
    /\ UNCHANGED <<env, cython_installed, mkl_h, git, files, cythonize, cython_version,
                   loc, reads, stdout, ext_modules, setup_call, last>>

CallGetVersionInfo ==
    /\ pc = "imported"
    /\ LET v == get_version_info(git)
       IN IF v.raised = "none"
          THEN /\ call' = [NoCall EXCEPT !.fn = "get_version_info",
                                         !.status = "returned",
                                         !.full_version = v.full_version,
                                         !.git_rev = v.git_rev]
               /\ pc' = "returned"
          ELSE /\ call' = [NoCall EXCEPT !.fn = "get_version_info", !.status = v.raised]
               /\ pc' = v.raised
    /\ UNCHANGED <<env, cython_installed, mkl_h, git, files, cythonize, cython_version,
                   loc, reads, stdout, ext_modules, setup_call, last>>

\* lines 54-74: the content is formatted into a local and the function returns
CallWriteUnderscoreVersionPy ==
    /\ pc = "imported"
    /\ \E filename \in Filenames :
         LET v == get_version_info(git)
         IN IF v.raised = "none"
            THEN /\ call' = [NoCall EXCEPT !.fn = "write_underscore_version_py",
                                           !.status = "returned",
                                           !.full_version = v.full_version,
                                           !.git_rev = v.git_rev,
                                           !.filename = filename,
                                           !.content = VersionContent(v)]
                 /\ pc' = "returned"
            ELSE /\ call' = [NoCall EXCEPT !.fn = "write_underscore_version_py",
                                           !.status = v.raised,
                                           !.filename = filename]
                 /\ pc' = v.raised
    /\ files' = files
    /\ UNCHANGED <<env, cython_installed, mkl_h, git, cythonize, cython_version,
                   loc, reads, stdout, ext_modules, setup_call, last>>

\* ----------------------------------------------------------- specifications
NoGit == [dir |-> FALSE, head |-> <<>>, rev_ok |-> FALSE, descr_ok |-> FALSE,
          tag |-> <<>>, n |-> 0]

NoRun == [ran |-> FALSE, env |-> [x \in EnvNames |-> Unset], pc |-> "none",
          ext_modules |-> <<>>]

Gits == [dir : BOOLEAN, head : Hashes, rev_ok : BOOLEAN, descr_ok : BOOLEAN,
         tag : Tags, n : 0..MaxCommits]

InitEnv ==
    \E o \in OptimizeValues, h \in HaveMklValues, d \in MklDirValues,
       r \in MklRootValues, m \in MklHomeValues, c \in CondaValues, l \in LayerValues :
        env = [x \in EnvNames |->
                 CASE x = "TENPY_OPTIMIZE" -> o
                   [] x = "HAVE_MKL" -> h
                   [] x = "MKL_DIR" -> d
                   [] x = "MKLROOT" -> r
                   [] x = "MKL_HOME" -> m
                   [] x = "CONDA_PREFIX" -> c
                   [] x = "MKL_INTERFACE_LAYER" -> l]

InitProcess ==
    /\ files = EmptyDict
    /\ cythonize = "None"
    /\ cython_version = <<>>
    /\ loc = NoLocals
    /\ reads = {}
    /\ stdout = <<>>
    /\ ext_modules = <<>>
    /\ setup_call = NoSetup
    /\ call = NoCall
    /\ last = NoRun

\* python setup.py ...: one build
Init ==
    /\ InitEnv
    /\ cython_installed \in BOOLEAN
    /\ mkl_h \in BOOLEAN
    /\ git = NoGit
    /\ pc = "python setup.py"
    /\ InitProcess

Next ==
    \/ Import
    \/ Enter
    \/ ReadOptimize
    \/ DetectMklDir
    \/ DetectConda
    \/ ReadHaveMkl
    \/ LinkLibs
    \/ Cythonize
    \/ Setup

Spec == Init /\ [][Next]_vars

\* builds of one tree at several optimization levels
NextRebuild == Next \/ Rebuild

SpecRebuild == Init /\ [][NextRebuild]_vars

\* import setup; one call of a version helper
InitVersion ==
    /\ env = [x \in EnvNames |-> Unset]
    /\ cython_installed \in BOOLEAN
    /\ mkl_h = FALSE
    /\ git \in Gits
    /\ pc = "import setup"
    /\ InitProcess

NextVersion ==
    \/ Import
    \/ CallGetGitRevision
    \/ CallGetGitDescription
    \/ CallGetVersionInfo
    \/ CallWriteUnderscoreVersionPy

SpecVersion == InitVersion /\ [][NextVersion]_vars


\* ------------------------------------------------------------------- claims
\* the environment variable holds the decimal text of n
EnvIs(name, n) == env[name] = Str(IntToStr(n))

\* setup_cython_extension has returned what cythonize produced
Compiled == cythonize = "function" /\ pc \in {"setup", "done"}

Directives == ext_modules[1].compiler_directives

ChecksDisabled(cd) ==
    /\ {"boundscheck", "initializedcheck"} \subseteq DOMAIN cd
    /\ cd["boundscheck"] = 0
    /\ cd["initializedcheck"] = 0

ChecksKept(cd) == {"boundscheck", "initializedcheck"} \cap DOMAIN cd = {}

Profiling(cd) ==
    /\ {"profile", "linetrace"} \subseteq DOMAIN cd
    /\ cd["profile"] = 1
    /\ cd["linetrace"] = 1

\* C1: with Cython available and TENPY_OPTIMIZE an integer >= 2, the compiler
\* directives passed to cythonize have boundscheck and initializedcheck False.
C1_Level2DisablesChecks ==
    (Compiled /\ \E n \in 2..MaxLevel : EnvIs("TENPY_OPTIMIZE", n))
        => ChecksDisabled(Directives)

C1_Witness ==
    /\ pc = "done"
    /\ Compiled
    /\ EnvIs("TENPY_OPTIMIZE", 2)
    /\ setup_call.called
    /\ ChecksDisabled(setup_call.ext_modules[1].compiler_directives)

\* C2: with TENPY_OPTIMIZE unset the level is 1, and at level 1 (defaulted or
\* explicit) the directives are exactly language_level 3 and embedsignature
\* True: no boundscheck, initializedcheck, profile or linetrace entry.
C2_Level1DefaultKeepsChecks ==
    (Compiled /\ (~env["TENPY_OPTIMIZE"].set \/ EnvIs("TENPY_OPTIMIZE", 1)))
        => /\ loc.TENPY_OPTIMIZE = 1
           /\ DOMAIN Directives = {"language_level", "embedsignature"}
           /\ Directives["language_level"] = 3
           /\ Directives["embedsignature"] = 1

C2_Witness ==
    /\ pc = "done"
    /\ Compiled
    /\ ~env["TENPY_OPTIMIZE"].set
    /\ setup_call.called
    /\ DOMAIN setup_call.ext_modules[1].compiler_directives
         = {"language_level", "embedsignature"}

\* C3: with TENPY_OPTIMIZE an integer < 1, profile and linetrace are True and
\* boundscheck / initializedcheck are not disabled; no level gives directives
\* that both disable the checks and enable profiling.
C3_ProfilingKeepsChecks ==
    Compiled =>
        /\ (\E n \in (0 - MaxNeg)..0 : EnvIs("TENPY_OPTIMIZE", n))
              => (Profiling(Directives) /\ ChecksKept(Directives))
        /\ ~(Profiling(Directives) /\ ~ChecksKept(Directives))

C3_Witness ==
    /\ pc = "done"
    /\ Compiled
    /\ EnvIs("TENPY_OPTIMIZE", 0 - MaxNeg)
    /\ setup_call.called
    /\ Profiling(setup_call.ext_modules[1].compiler_directives)

\* what is built by an extension, compiler directives aside
BuildOf(e) == [name |-> e.name, sources |-> e.sources, include_dirs |-> e.include_dirs,
               libraries |-> e.libraries, library_dirs |-> e.library_dirs,
               define_macros |-> e.define_macros, language |-> e.language,
               compile_time_env |-> e.compile_time_env]

SameBuild(a, b) == /\ Len(a) = Len(b)
                   /\ \A i \in 1..Len(a) : BuildOf(a[i]) = BuildOf(b[i])

OnlyOptimizeDiffers(e1, e2) == \A x \in EnvNames \ {"TENPY_OPTIMIZE"} : e1[x] = e2[x]

\* C4: two builds whose environments differ only in TENPY_OPTIMIZE produce
\* extensions with the same sources, include and library directories, libraries,
\* C macros and Cython compile-time environment; only the compiler directives
\* may differ.
C4_LevelChangesOnlyDirectives ==
    (/\ last.ran
     /\ last.pc = "done"
     /\ pc \in {"setup", "done"}
     /\ OnlyOptimizeDiffers(last.env, env))
        => SameBuild(last.ext_modules, ext_modules)

C4_Witness ==
    /\ last.ran
    /\ last.pc = "done"
    /\ pc = "done"
    /\ Compiled
    /\ EnvIs("TENPY_OPTIMIZE", 2)
    /\ last.env["TENPY_OPTIMIZE"] = Str(IntToStr(0))
    /\ Len(last.ext_modules) = 1
    /\ ChecksDisabled(Directives)
    /\ Profiling(last.ext_modules[1].compiler_directives)
    /\ ext_modules[1].libraries = MklLibs
    /\ SameBuild(last.ext_modules, ext_modules)

HasVendorLibs(libs) == \E i \in 1..Len(libs) : libs[i] \in {"mkl_rt", "pthread", "iomp5"}

\* C5: whenever HAVE_MKL is set in the environment the final HAVE_MKL is its
\* integer value whatever MKL_DIR, MKLROOT, MKL_HOME and CONDA_PREFIX detect;
\* mkl_rt, pthread and iomp5 are linked iff the final HAVE_MKL is nonzero, and
\* that value is the Cython compile-time HAVE_MKL.
C5_HaveMklIsTheSwitch ==
    Compiled =>
        /\ \A n \in 0..MaxHaveMkl :
              EnvIs("HAVE_MKL", n) => loc.HAVE_MKL = n
        /\ "HAVE_MKL" \in DOMAIN ext_modules[1].compile_time_env
        /\ ext_modules[1].compile_time_env["HAVE_MKL"] = loc.HAVE_MKL
        /\ (loc.HAVE_MKL # 0) => ext_modules[1].libraries = MklLibs
        /\ (loc.HAVE_MKL = 0) => ~HasVendorLibs(ext_modules[1].libraries)

C5_Witness ==
    /\ pc = "done"
    /\ Compiled
    /\ EnvIs("HAVE_MKL", 0)
    /\ loc.MKL_DIR # <<>>
    /\ Len(ext_modules[1].library_dirs) > 0
    /\ ext_modules[1].libraries = <<>>
    /\ ext_modules[1].compile_time_env["HAVE_MKL"] = 0

\* C6: after write_underscore_version_py(filename) returns, the file named
\* filename holds the generated version content.
C6_VersionFileWritten ==
    (call.fn = "write_underscore_version_py" /\ call.status = "returned")
        => /\ call.filename \in DOMAIN files
           /\ files[call.filename] = call.content

\* C7: get_git_description returns the commit count n of the git describe
\* output, or 0 when it is unknown, and never raises; get_version_info then
\* always returns its pair.
C7_DescriptionIsCountOrZero ==
    /\ call.fn = "get_git_description"
          => (call.status = "returned" /\ call.num \in {0, git.n})
    /\ call.fn = "get_version_info" => call.status = "returned"

\* C8: when Cython cannot be imported no environment variable is read, nothing
\* is raised, and setup() is called with ext_modules == [], whatever the
\* environment holds.
C8_NoCythonBuildsNothing ==
    ~cython_installed =>
        /\ reads = {}
        /\ pc \in {"python setup.py", "main", "setup", "done"}
        /\ ext_modules = <<>>
        /\ setup_call.called => setup_call.ext_modules = <<>>
        /\ pc = "done" => setup_call.called

C8_Witness ==
    /\ ~cython_installed
    /\ pc = "done"
    /\ env["TENPY_OPTIMIZE"] = Str(<<"x">>)
    /\ env["HAVE_MKL"] = Str(<<"y">>)
    /\ setup_call.called
    /\ setup_call.ext_modules = <<>>
    /\ reads = {}

====
